---- MODULE Spec2Model ----
(***************************************************************************)
(* let_them_cook.py: a session orchestrator between an execution agent     *)
(* (the "claude" subprocess) and an advisory model (Gemini).               *)
(*                                                                         *)
(* Python strings are modelled as sequences of one-character strings, so   *)
(* that len(), slicing, "in", strip() and "\n".join() are computed the way *)
(* the code computes them.                                                 *)
(***************************************************************************)
EXTENDS Integers, Sequences, FiniteSets, TLC

(***************************************************************************)
(* Bounds of the model                                                     *)
(***************************************************************************)
\* largest value of --max-turns that is explored (0 = unlimited)
MaxTurnLimit == 2
\* launches (successful or failed) of the execution agent in one run
MaxLaunches == 3
\* bytes the external writer appends to the transcript in one run
MaxFileLen == 11
\* content blocks of one record in the inputs of the Transcript Reader
MaxBlocks == 2

(***************************************************************************)
(* Python values                                                           *)
(***************************************************************************)
\* Optional[str]: None, or a string
None == [some |-> FALSE, val |-> <<>>]

Some(v) == [some |-> TRUE, val |-> v]

\* bool(x) of an Optional[str]: None and "" are falsy
Truthy(o) == o.some /\ o.val # <<>>

\* c.isspace() for the characters used here
IsSpace(c) == c \in {" ", "\n"}

RECURSIVE LStrip(_)
LStrip(s) ==
    IF s = <<>> THEN s
    ELSE IF IsSpace(Head(s)) THEN LStrip(Tail(s)) ELSE s

RECURSIVE RStrip(_)
RStrip(s) ==
    IF s = <<>> THEN s
    ELSE IF IsSpace(s[Len(s)]) THEN RStrip(SubSeq(s, 1, Len(s) - 1)) ELSE s

\* str.strip()
Strip(s) == RStrip(LStrip(s))

\* sub in s
Contains(sub, s) ==
    \E i \in 1..(Len(s) - Len(sub) + 1) : SubSeq(s, i, i + Len(sub) - 1) = sub

\* s.startswith(sub)
StartsWith(sub, s) == Len(s) >= Len(sub) /\ SubSeq(s, 1, Len(sub)) = sub

\* sep.join(parts)
RECURSIVE Join(_, _)
Join(sep, parts) ==
    IF parts = <<>> THEN <<>>
    ELSE IF Len(parts) = 1 THEN parts[1]
    ELSE parts[1] \o sep \o Join(sep, Tail(parts))

(***************************************************************************)
(* String constants of the program                                         *)
(***************************************************************************)
DONE == <<"[", "D", "O", "N", "E", "]">>

SILENT == <<"[", "S", "I", "L", "E", "N", "T", "]">>

NO_TEXT_RESPONSE ==
    <<"[", "n", "o", " ", "t", "e", "x", "t", " ",
      "r", "e", "s", "p", "o", "n", "s", "e", "]">>

\* f"[ERROR] Failed to start Claude: {e}", the exception text e left out
LAUNCH_ERROR == <<"[", "E", "R", "R", "O", "R", "]">>

\* f"[watcher:error] {e}", the exception text e left out
WATCHER_ERROR ==
    <<"[", "w", "a", "t", "c", "h", "e", "r", ":", "e", "r", "r", "o", "r", "]">>

(***************************************************************************)
(* GeminiClient                                                            *)
(***************************************************************************)
\* What the backend does on one generate_content call: it raises, or it
\* answers with response.text = text.
Reply(raises, text) == [raises |-> raises, text |-> text]

\* a bug: the diagnostic is returned instead of ""
analyze_returns_diagnostic(available, reply) ==
    IF ~available THEN <<>>
    ELSE IF reply.raises THEN <<"e", "r", "r">>
    ELSE Strip(reply.text)

\* GeminiClient.analyze
analyze(available, reply) ==
    IF ~available THEN <<>>
    ELSE IF reply.raises THEN <<>>
    ELSE Strip(reply.text)

\* a bug: the marker is only recognised at the start of the response
should_continue_prefix_only(available, reply) ==
    IF ~available THEN None
    ELSE LET response == analyze(available, reply)
         IN  IF StartsWith(DONE, response) \/ response = <<>> THEN None
             ELSE Some(Strip(response))

\* LetThemCook.should_continue: the decision taken on the advisory reply
should_continue(available, reply) ==
    IF ~available THEN None
    ELSE LET response == analyze(available, reply)
         IN  IF Contains(DONE, response) \/ response = <<>> THEN None
             ELSE Some(Strip(response))

\* LetThemCook.should_chime_in
should_chime_in(is_passive, available, reply) ==
    IF is_passive \/ ~available THEN None
    ELSE LET response == analyze(available, reply)
         IN  IF Contains(SILENT, response) \/ response = <<>> THEN None
             ELSE Some(Strip(response))

(***************************************************************************)
(* Transcript Reader                                                       *)
(*                                                                         *)
(* A transcript line is a text over one-byte tokens.  json.loads is        *)
(* modelled as a parser of this small language:                            *)
(*    7                 a JSON number (a value that is not an object)      *)
(*    { }               an object without "type"                           *)
(*    { k body }        an object with "type": k, where k is               *)
(*                        u "user", a "assistant", s "system"              *)
(*      body empty        no "message" key                                 *)
(*      body m            "message": "..."         (not an object)         *)
(*      body c            "message": {"content": 7}                        *)
(*      body w            "message": {"content": "hi"}                     *)
(*      body of blocks    "message": {"content": [blocks]}, a block being  *)
(*                        t {"type":"text","text":"x"}                     *)
(*                        n {"type":"text","text":null}                    *)
(*                        T {"type":"tool_use","name":"f","input":{}}      *)
(*                        U {"type":"tool_use","name":"g","input":{}}      *)
(*                        q "..."                  (not an object)         *)
(* Every other text fails to decode (json.JSONDecodeError).                *)
(***************************************************************************)
TypeTokens == {"u", "a", "s"}

BlockTokens == {"t", "n", "T", "U", "q"}

TypeOf(tok) ==
    IF tok = "u" THEN "user" ELSE IF tok = "a" THEN "assistant" ELSE "system"

JsonDecodeError ==
    [ok |-> FALSE, top |-> "none", type |-> "none", message |-> "absent",
     content |-> "absent", blocks |-> <<>>]

JsonNumber ==
    [ok |-> TRUE, top |-> "num", type |-> "none", message |-> "absent",
     content |-> "absent", blocks |-> <<>>]

JsonObject(type, message, content, blocks) ==
    [ok |-> TRUE, top |-> "obj", type |-> type, message |-> message,
     content |-> content, blocks |-> blocks]

\* json.loads(s)
json_loads(s) ==
    IF s = <<"7">> THEN JsonNumber
    ELSE IF Len(s) >= 2 /\ s[1] = "{" /\ s[Len(s)] = "}" THEN
        LET inner == SubSeq(s, 2, Len(s) - 1)
        IN  IF inner = <<>> THEN JsonObject("none", "absent", "absent", <<>>)
            ELSE IF Head(inner) \notin TypeTokens THEN JsonDecodeError
            ELSE LET type == TypeOf(Head(inner))
                     body == Tail(inner)
                 IN  IF body = <<>>
                         THEN JsonObject(type, "absent", "absent", <<>>)
                     ELSE IF body = <<"m">>
                         THEN JsonObject(type, "str", "absent", <<>>)
                     ELSE IF body = <<"c">>
                         THEN JsonObject(type, "obj", "num", <<>>)
                     ELSE IF body = <<"w">>
                         THEN JsonObject(type, "obj", "str", <<>>)
                     ELSE IF \A i \in DOMAIN body : body[i] \in BlockTokens
                         THEN JsonObject(type, "obj", "list", body)
                     ELSE JsonDecodeError
    ELSE JsonDecodeError

\* Message(role, content, timestamp, tool_calls); the timestamp is left out.
\* ctype is the Python type of content: a user record's content is passed on
\* as it is found ("str", "list" of blocks, or "num").
Message(role, content, ctype, tool_calls) ==
    [role |-> role, content |-> content, ctype |-> ctype,
     tool_calls |-> tool_calls]

\* the None of Optional[Message]
NoMessage == Message("none", <<>>, "str", None)

\* The outcome of a call: the value returned, or the exception raised.
Returned(m) == [raised |-> FALSE, exc |-> "", msg |-> m]

Raised(exc) == [raised |-> TRUE, exc |-> exc, msg |-> NoMessage]

\* text_parts of an assistant record, in order (block.get("text", ""))
TextBlocks(blocks) == SelectSeq(blocks, LAMBDA b : b \in {"t", "n"})

\* a bug: the tool blocks are collected newest first
ToolBlocks_reversed(blocks) ==
    LET found == SelectSeq(blocks, LAMBDA b : b \in {"T", "U"})
    IN  [i \in 1..Len(found) |-> found[Len(found) + 1 - i]]

\* tool_calls of an assistant record, in order: the names of the tools
ToolBlocks(blocks) == SelectSeq(blocks, LAMBDA b : b \in {"T", "U"})

ToolName(b) == IF b = "T" THEN "f" ELSE "g"

\* parse_session_line
parse_session_line(line) ==
    LET data == json_loads(Strip(line))
    IN  IF ~data.ok THEN Returned(NoMessage)
        ELSE IF data.top # "obj" THEN Raised("AttributeError")
        ELSE IF data.type = "user" THEN
            IF data.message = "str" THEN Raised("AttributeError")
            ELSE Returned(Message("user",
                    IF data.content = "str" THEN <<"h", "i">>
                    ELSE IF data.content = "num" THEN <<"7">>
                    ELSE data.blocks,
                    IF data.content \in {"absent", "str"} THEN "str"
                    ELSE IF data.content = "num" THEN "num" ELSE "list",
                    None))
        ELSE IF data.type = "assistant" THEN
            IF data.message = "str" THEN Raised("AttributeError")
            ELSE IF data.content = "num" THEN Raised("TypeError")
            ELSE LET text_parts == TextBlocks(data.blocks)
                     tool_calls == ToolBlocks(data.blocks)
                 IN  IF \E i \in DOMAIN text_parts : text_parts[i] = "n"
                         THEN Raised("TypeError")
                     ELSE Returned(Message("assistant",
                            Join(<<"\n">>, [i \in DOMAIN text_parts |-> <<"x">>]),
                            "str",
                            IF tool_calls # <<>>
                                THEN Some([i \in DOMAIN tool_calls |->
                                             ToolName(tool_calls[i])])
                                ELSE None))
        ELSE Returned(NoMessage)

(***************************************************************************)
(* Files                                                                   *)
(***************************************************************************)
\* index of the first "\n" of s, or 0
RECURSIVE FirstNewline(_, _)
FirstNewline(s, i) ==
    IF i > Len(s) THEN 0
    ELSE IF s[i] = "\n" THEN i ELSE FirstNewline(s, i + 1)

\* f.readlines() on the text s: the lines with their "\n"; a last line that
\* is not terminated is returned too
RECURSIVE readlines(_)
readlines(s) ==
    IF s = <<>> THEN <<>>
    ELSE LET i == FirstNewline(s, 1)
         IN  IF i = 0 THEN <<s>>
             ELSE <<SubSeq(s, 1, i)>> \o readlines(SubSeq(s, i + 1, Len(s)))

\* the messages of a sequence of lines, in order (lines that parse to None
\* are skipped)
RECURSIVE Messages(_)
Messages(lines) ==
    IF lines = <<>> THEN <<>>
    ELSE LET m == parse_session_line(Head(lines)).msg
         IN  (IF m = NoMessage THEN <<>> ELSE <<m>>) \o Messages(Tail(lines))

(***************************************************************************)
(* Inputs                                                                  *)
(***************************************************************************)
\* the task given on the command line
TASK == <<"t", "a", "s", "k">>

\* a line the user types in interactive mode
USER_LINE == <<"h", "i">>

\* what the advisory backend may do on one call with the continuation
\* prompt: it raises, or answers "", "ok [DONE]" or " do "
ContinueReplies ==
    {Reply(TRUE, <<>>)} \cup
    {Reply(FALSE, t) : t \in {<<>>,
                              <<"o", "k", " ">> \o DONE,
                              <<" ", "d", "o", " ">>}}

\* and with the chime-in prompt: it raises, or answers "", "[SILENT]" or
\* " do "
ChimeReplies ==
    {Reply(TRUE, <<>>)} \cup
    {Reply(FALSE, t) : t \in {<<>>, SILENT, <<" ", "d", "o", " ">>}}

\* records the execution agent writes to its transcript
FileLines ==
    {<<"{", "u", "w", "}">>,
     <<"{", "a", "t", "}">>,
     <<"{", "a", "T", "}">>,
     <<"{", "s", "}">>,
     <<"7">>}

\* what the subprocess may write to its output before it exits: the events
\* of its stream-json output that carry text, in order
Streams ==
    {<<>>, <<"result">>, <<"assistant">>, <<"assistant", "result">>}

(***************************************************************************)
(* State                                                                   *)
(***************************************************************************)
VARIABLES
    \* Run Configuration (main, LetThemCook.__init__)
    run_mode,       \* "drive" | "watch" | "interactive"
    passive,        \* self.passive
    max_turns,      \* self.max_turns
    available,      \* self.gemini.available
    claude_bin,     \* os.path.exists(CLAUDE_BIN)
    \* Session Loop
    pc,             \* position of the single cooperative task
    caller,         \* who awaits send_to_claude
    running,        \* self.running
    turn,           \* turn of run_drive_mode / continue_autonomous
    response,       \* response / last_response
    next_message,   \* next_message / next_msg / chime / the message to send
    continue_session, \* argument of send_to_claude
    conversation,   \* self.conversation
    last_position,  \* self.last_position
    session_file,   \* self.session_file is not None
    new_lines,      \* new_lines still to be handled in this cycle
    parsed,         \* outcome of the last parse_session_line call
    full_response,  \* full_response of the last send_to_claude
    \* Environment
    file_exists,    \* a *.jsonl file is in the project's session directory
    file,           \* its content
    wpending,       \* rest of the record the external writer is writing
    proc,           \* the subprocess: "none" | "running" | "exited" | "killed"
    advice,         \* the backend's reply on the last advisory call
    \* History
    launches,       \* every create_subprocess_exec call, in order
    chime_calls,    \* calls of should_chime_in
    tells,          \* the positions f.tell() has returned for the transcript
    last_error      \* the last error text returned or printed

vars ==
    <<run_mode, passive, max_turns, available, claude_bin, pc, caller, running,
      turn, response, full_response, next_message, continue_session, conversation, last_position, session_file, new_lines, parsed,
      file_exists, file, wpending, proc, advice, launches, chime_calls,
      tells, last_error>>

config == <<run_mode, passive, max_turns, available, claude_bin>>

watch_vars ==
    <<last_position, session_file, new_lines, parsed, chime_calls, tells>>

env_vars == <<file_exists, file, wpending>>

\* the state LetThemCook.__init__ sets up, common to every specification
Constructed ==
    /\ caller = "none"
    /\ running = FALSE
    /\ turn = 0
    /\ response = <<>>
    /\ next_message = None
    /\ continue_session = TRUE
    /\ conversation = <<>>
    /\ last_position = 0
    /\ session_file = FALSE
    /\ parsed = Returned(NoMessage)
    /\ full_response = <<>>
    /\ wpending = <<>>
    /\ proc = "none"
    /\ launches = <<>>
    /\ chime_calls = 0
    /\ tells = {}
    /\ last_error = <<>>

Init ==
    /\ run_mode \in {"drive", "watch", "interactive"}
    /\ passive \in BOOLEAN
    /\ (passive => run_mode = "watch")
    /\ max_turns \in 0..MaxTurnLimit
    /\ (run_mode = "watch" => max_turns = 0)     \* not read in watch mode
    /\ available \in BOOLEAN
    /\ claude_bin \in BOOLEAN
    /\ file_exists \in BOOLEAN
    /\ file = <<>>
    /\ pc = "main"
    /\ new_lines = <<>>
    /\ advice = Reply(FALSE, <<>>)
    /\ Constructed

(***************************************************************************)
(* Process Launcher, capture mode: send_to_claude                          *)
(***************************************************************************)
\* one create_subprocess_exec call, as recorded in the history
Launch(kind, by, message, cont, started) ==
    [kind |-> kind, by |-> by, message |-> message,
     continue_session |-> cont, started |-> started]

\* where send_to_claude's caller resumes with the returned value
ReturnPc(by) ==
    IF by = "drive_initial" THEN "drive_loop"
    ELSE IF by = "drive_loop" THEN "drive_loop"
    ELSE IF by = "auto_loop" THEN "auto_loop"
    ELSE "interactive_input"

\* await self.send_to_claude(message, continue_session) is entered
Call(message, cont, by) ==
    /\ pc' = "stc_spawn"
    /\ caller' = by
    /\ next_message' = Some(message)
    /\ continue_session' = cont

\* send_to_claude returns value to its caller
Return(value) ==
    /\ response' = value
    /\ pc' = ReturnPc(caller)
    /\ turn' = IF caller = "drive_initial" THEN 0 ELSE turn
    /\ caller' = "none"

\* create_subprocess_exec raises: the error string is returned
StcSpawnFail ==
    /\ pc = "stc_spawn"
    /\ Len(launches) < MaxLaunches
    /\ launches' = Append(launches,
            Launch("capture", caller, next_message.val, continue_session, FALSE))
    /\ last_error' = LAUNCH_ERROR
    /\ Return(LAUNCH_ERROR)
    /\ UNCHANGED <<config, full_response, running, next_message, continue_session,
                   conversation, watch_vars, env_vars, proc,
                   advice>>

\* the subprocess is started
StcSpawnOk ==
    /\ pc = "stc_spawn"
    /\ Len(launches) < MaxLaunches
    /\ launches' = Append(launches,
            Launch("capture", caller, next_message.val, continue_session, TRUE))
    /\ proc' = "running"
    /\ full_response' = <<>>
    /\ pc' = "stc_read"
    /\ UNCHANGED <<config, caller, running, turn, response, next_message,
                   continue_session, conversation, watch_vars, env_vars,
                   advice, last_error>>

\* full_response after one more event of the output stream: the text of an
\* assistant event is appended with a newline, the result of a result event
\* is taken when nothing was captured
Capture(captured, ev) ==
    IF ev = "assistant" THEN captured \o <<"o", "k", "\n">>
    ELSE IF captured = <<>> THEN <<"o", "k">>
    ELSE captured

\* full_response when the read loop is left: every event of the stream has
\* been read
RECURSIVE CaptureAll(_, _)
CaptureAll(captured, stream) ==
    IF stream = <<>> THEN captured
    ELSE CaptureAll(Capture(captured, Head(stream)), Tail(stream))

\* the response after the subprocess exited, reconciled with the transcript
Reconcile(resp, exists, content) ==
    IF ~exists THEN resp
    ELSE LET lines == readlines(content)
         IN  IF lines = <<>> THEN resp
             ELSE LET r == parse_session_line(lines[Len(lines)])
                  IN  IF r.raised THEN resp
                      ELSE IF /\ r.msg # NoMessage
                              /\ r.msg.role = "assistant"
                              /\ Len(r.msg.content) > Len(resp)
                          THEN r.msg.content
                      ELSE resp

\* a bug: the instruction that was sent is not stored
Stored_response_only(conv, message, resp) ==
    Append(conv, Message("assistant", resp, "str", None))

\* a bug: the conversation keeps the last exchange only
Stored_last_exchange_only(conv, message, resp) ==
    <<Message("user", message, "str", None),
      Message("assistant", resp, "str", None)>>

\* "Store in conversation": the message sent and the response are appended
Stored(conv, message, resp) ==
    conv \o <<Message("user", message, "str", None),
              Message("assistant", resp, "str", None)>>

\* the subprocess has exited and its output has been read: reconcile, store
\* in the conversation, return
StcFinish ==
    /\ pc = "stc_read"
    /\ proc = "exited"
    /\ \E stream \in Streams :
          LET captured == CaptureAll(full_response, stream)
              resp == IF captured # <<>> THEN Strip(captured)
                      ELSE NO_TEXT_RESPONSE
              final == Reconcile(resp, file_exists, file)
          IN  /\ full_response' = captured
              /\ conversation' = Stored(conversation, next_message.val, final)
              /\ Return(final)
    /\ session_file' = (session_file \/ file_exists)
    /\ UNCHANGED <<config, running, next_message, continue_session,
                   last_position, new_lines, parsed,
                   chime_calls, tells, env_vars, proc, advice, launches, last_error>>

(***************************************************************************)
(* Drive mode: run_drive_mode                                              *)
(***************************************************************************)
\* run_drive_mode up to the initial send
DriveStart ==
    /\ pc = "drive_start"
    /\ running' = TRUE
    /\ Call(TASK, FALSE, "drive_initial")
    /\ UNCHANGED <<config, full_response, turn, response, conversation,
                   watch_vars, env_vars, proc, advice, launches, last_error>>

\* a bug: the loop runs one turn more than the limit
LoopContinues_off_by_one(is_running, limit, t) ==
    is_running /\ (limit = 0 \/ t <= limit)

\* a bug: a limit of 0 is taken as a limit too
LoopContinues_zero_is_limit(is_running, limit, t) == is_running /\ t < limit

\* the condition of the autonomous loops
LoopContinues(is_running, limit, t) ==
    is_running /\ (limit = 0 \/ t < limit)

\* while self.running and (...): turn += 1, or the loop is left
DriveLoopCheck ==
    /\ pc = "drive_loop"
    /\ IF LoopContinues(running, max_turns, turn)
          THEN pc' = "drive_decide" /\ turn' = turn + 1
          ELSE pc' = "done" /\ turn' = turn
    /\ UNCHANGED <<config, full_response, caller, running, response, next_message,
                   continue_session, conversation, watch_vars,
                   env_vars, proc, advice, launches, last_error>>

\* a bug: the instruction is relayed without the throttle wait
DriveDecide_no_throttle ==
    /\ pc = "drive_decide"
    /\ \E reply \in ContinueReplies :
          /\ advice' = IF available THEN reply ELSE advice
          /\ LET decided == should_continue(available, reply)
             IN  IF Truthy(decided)
                 THEN Call(decided.val, TRUE, "drive_loop")
                 ELSE /\ next_message' = decided
                      /\ pc' = "interactive_input"
                      /\ UNCHANGED <<caller, continue_session>>
    /\ UNCHANGED <<config, full_response, running, turn, response,
                   conversation, watch_vars, env_vars, proc,
                   launches, last_error>>

\* next_message = self.should_continue(response)
DriveDecide ==
    /\ pc = "drive_decide"
    /\ \E reply \in ContinueReplies :
          /\ advice' = IF available THEN reply ELSE advice
          /\ next_message' = should_continue(available, reply)
    /\ pc' = IF Truthy(next_message') THEN "drive_sleep" ELSE "interactive_input"
    /\ UNCHANGED <<config, full_response, caller, running, turn, response, continue_session,
                   conversation, watch_vars, env_vars, proc,
                   launches, last_error>>

\* asyncio.sleep(2) has elapsed: the instruction is relayed
DriveThrottle ==
    /\ pc = "drive_sleep"
    /\ Call(next_message.val, TRUE, "drive_loop")
    /\ UNCHANGED <<config, full_response, running, turn, response, conversation, watch_vars, env_vars, proc, advice, launches,
                   last_error>>

(***************************************************************************)
(* Interactive mode: interactive_mode, continue_autonomous                 *)
(***************************************************************************)
\* "/quit", or end of input
InteractiveQuit ==
    /\ pc = "interactive_input"
    /\ pc' = "done"
    /\ UNCHANGED <<config, full_response, caller, running, turn, response, next_message,
                   continue_session, conversation, watch_vars,
                   env_vars, proc, advice, launches, last_error>>

\* a bug: the resumed loop goes on with the turn count it finds
InteractiveAuto_keeps_turn ==
    /\ pc = "interactive_input"
    /\ pc' = "auto_loop"
    /\ UNCHANGED <<config, full_response, caller, running, turn, response,
                   next_message, continue_session, conversation, watch_vars,
                   env_vars, proc, advice, launches, last_error>>

\* a bug: the autonomous loop starts from an empty response
InteractiveAuto_forgets_response ==
    /\ pc = "interactive_input"
    /\ pc' = "auto_loop"
    /\ turn' = 0
    /\ response' = <<>>
    /\ UNCHANGED <<config, full_response, caller, running, next_message,
                   continue_session, conversation, watch_vars,
                   env_vars, proc, advice, launches, last_error>>

\* "/auto": continue_autonomous(last_response) starts with turn = 0
InteractiveAuto ==
    /\ pc = "interactive_input"
    /\ pc' = "auto_loop"
    /\ turn' = 0
    /\ UNCHANGED <<config, full_response, caller, running, response, next_message,
                   continue_session, conversation, watch_vars,
                   env_vars, proc, advice, launches, last_error>>

\* a bug: the human's input starts a fresh session
InteractiveSend_fresh_session ==
    /\ pc = "interactive_input"
    /\ Call(USER_LINE, FALSE, "interactive")
    /\ UNCHANGED <<config, full_response, running, turn, response,
                   conversation, watch_vars, env_vars, proc, advice, launches,
                   last_error>>

\* any other non-empty line is sent to the execution agent
InteractiveSend ==
    /\ pc = "interactive_input"
    /\ Call(USER_LINE, TRUE, "interactive")
    /\ UNCHANGED <<config, full_response, running, turn, response, conversation, watch_vars, env_vars, proc, advice, launches,
                   last_error>>

\* while self.max_turns == 0 or turn < self.max_turns: turn += 1; when the
\* loop is left, continue_autonomous and its callers return
AutoLoopCheck ==
    /\ pc = "auto_loop"
    /\ IF LoopContinues(TRUE, max_turns, turn)
          THEN pc' = "auto_decide" /\ turn' = turn + 1
          ELSE pc' = "done" /\ turn' = turn
    /\ UNCHANGED <<config, full_response, caller, running, response, next_message,
                   continue_session, conversation, watch_vars,
                   env_vars, proc, advice, launches, last_error>>

\* next_msg = self.should_continue(last_response)
AutoDecide ==
    /\ pc = "auto_decide"
    /\ \E reply \in ContinueReplies :
          /\ advice' = IF available THEN reply ELSE advice
          /\ next_message' = should_continue(available, reply)
    /\ pc' = IF Truthy(next_message') THEN "auto_sleep" ELSE "interactive_input"
    /\ UNCHANGED <<config, full_response, caller, running, turn, response, continue_session,
                   conversation, watch_vars, env_vars, proc,
                   launches, last_error>>

\* asyncio.sleep(2) has elapsed: the instruction is relayed
AutoThrottle ==
    /\ pc = "auto_sleep"
    /\ Call(next_message.val, TRUE, "auto_loop")
    /\ UNCHANGED <<config, full_response, running, turn, response, conversation, watch_vars, env_vars, proc, advice, launches,
                   last_error>>

(***************************************************************************)
(* Watch mode: run_watch_mode, handle_watch_message, send_chime            *)
(***************************************************************************)
WatchStart ==
    /\ pc = "watch_start"
    /\ running' = TRUE
    /\ pc' = "watch_locate"
    /\ UNCHANGED <<config, full_response, caller, turn, response, next_message,
                   continue_session, conversation, watch_vars,
                   env_vars, proc, advice, launches, last_error>>

\* a bug: an empty session file is taken
Located_exists_only(exists, content) == exists

\* self.session_file and self.session_file.stat().st_size > 0
Located(exists, content) == exists /\ Len(content) > 0

\* one round of the wait for the session file; when it is not there yet the
\* loop sleeps a second and looks again
WatchLocate ==
    /\ pc = "watch_locate"
    /\ running
    /\ session_file' = file_exists
    /\ pc' = IF Located(file_exists, file) THEN "watch_replay" ELSE "watch_locate"
    /\ UNCHANGED <<config, full_response, caller, running, turn, response, next_message,
                   continue_session, conversation,
                   last_position, new_lines, parsed, chime_calls, tells, env_vars,
                   proc, advice, launches, last_error>>

\* f.tell() after f.seek(cursor) and a read to the end of the file
Tell(cursor, content) == IF cursor > Len(content) THEN cursor ELSE Len(content)

\* a bug: the cursor is set to the number of bytes just read
CursorAfterRead_relative(cursor, content) == Len(content) - cursor

\* self.last_position = f.tell()
CursorAfterRead(cursor, content) == Tell(cursor, content)

\* f.seek(cursor); f.readlines(): the text from the cursor to the end
ReadFrom(cursor, content) ==
    IF cursor >= Len(content) THEN <<>>
    ELSE SubSeq(content, cursor + 1, Len(content))

\* index of the first line whose parse raises, or 0
RECURSIVE FirstRaising(_, _)
FirstRaising(lines, i) ==
    IF i > Len(lines) THEN 0
    ELSE IF parse_session_line(lines[i]).raised THEN i
    ELSE FirstRaising(lines, i + 1)

\* a bug: the last historical record is handled like a new one
WatchReplay_handles_history ==
    /\ pc = "watch_replay"
    /\ LET lines == readlines(file)
           k == FirstRaising(lines, 1)
       IN  IF k = 0
           THEN /\ conversation' = conversation \o Messages(lines)
                /\ last_position' = CursorAfterRead(0, file)
                /\ tells' = tells \cup {Tell(0, file)}
                /\ parsed' = IF lines = <<>> THEN parsed
                             ELSE parse_session_line(lines[Len(lines)])
                /\ pc' = IF parsed'.msg # NoMessage THEN "tail_handle"
                         ELSE "tail_read"
           ELSE /\ conversation' =
                       conversation \o Messages(SubSeq(lines, 1, k - 1))
                /\ last_position' = last_position
                /\ tells' = tells
                /\ parsed' = parse_session_line(lines[k])
                /\ pc' = "crashed"
    /\ UNCHANGED <<config, full_response, caller, running, turn, response,
                   next_message, continue_session, session_file, new_lines,
                   chime_calls, env_vars, proc, advice, launches, last_error>>

\* "Read existing content": every line is parsed and appended, the cursor is
\* set to f.tell(); an exception of the parse is not caught here
WatchReplay ==
    /\ pc = "watch_replay"
    /\ LET lines == readlines(file)
           k == FirstRaising(lines, 1)
       IN  IF k = 0
           THEN /\ conversation' = conversation \o Messages(lines)
                /\ last_position' = CursorAfterRead(0, file)
                /\ tells' = tells \cup {Tell(0, file)}
                /\ parsed' = IF lines = <<>> THEN parsed
                             ELSE parse_session_line(lines[Len(lines)])
                /\ pc' = "tail_read"
           ELSE /\ conversation' =
                       conversation \o Messages(SubSeq(lines, 1, k - 1))
                /\ last_position' = last_position
                /\ tells' = tells
                /\ parsed' = parse_session_line(lines[k])
                /\ pc' = "crashed"
    /\ UNCHANGED <<config, full_response, caller, running, turn, response, next_message,
                   continue_session, session_file, new_lines,
                   chime_calls, env_vars, proc, advice, launches, last_error>>

\* one tailing cycle reads the new lines and moves the cursor
TailRead ==
    /\ pc = "tail_read"
    /\ running
    /\ new_lines' = readlines(ReadFrom(last_position, file))
    /\ last_position' = CursorAfterRead(last_position, file)
    /\ tells' = tells \cup {Tell(last_position, file)}
    /\ pc' = "tail_lines"
    /\ UNCHANGED <<config, full_response, caller, running, turn, response, next_message,
                   continue_session, conversation, session_file,
                   parsed, chime_calls, env_vars, proc, advice, launches,
                   last_error>>

\* except Exception as e: print, asyncio.sleep(1); the rest of the batch is
\* abandoned
Fault ==
    /\ pc' = "tail_backoff"
    /\ new_lines' = <<>>
    /\ last_error' = WATCHER_ERROR

\* for line in new_lines: msg = parse_session_line(line); if msg: append
TailNextLine ==
    /\ pc = "tail_lines"
    /\ IF new_lines = <<>>
       THEN /\ pc' = "tail_sleep"
            /\ UNCHANGED <<new_lines, parsed, conversation, last_error>>
       ELSE LET r == parse_session_line(Head(new_lines))
            IN  /\ parsed' = r
                /\ IF r.raised
                   THEN Fault /\ UNCHANGED conversation
                   ELSE /\ new_lines' = Tail(new_lines)
                        /\ last_error' = last_error
                        /\ IF r.msg = NoMessage
                           THEN pc' = "tail_lines" /\ UNCHANGED conversation
                           ELSE /\ conversation' = Append(conversation, r.msg)
                                /\ pc' = "tail_handle"
    /\ UNCHANGED <<config, full_response, caller, running, turn, response, next_message,
                   continue_session, last_position,
                   session_file, chime_calls, tells, env_vars, proc, advice, launches>>

\* a bug: the advisory step is taken for user messages too
ConsultsAdvisory_any_role(role, is_passive) == ~is_passive

\* a bug: the passive flag is not looked at before the advisory step
ConsultsAdvisory_ignores_passive(role, is_passive) == role = "assistant"

\* handle_watch_message decides on a chime-in for this message
ConsultsAdvisory(role, is_passive) == role = "assistant" /\ ~is_passive

\* await self.handle_watch_message(msg), up to the throttle
HandleWatchMessage ==
    /\ pc = "tail_handle"
    /\ LET m == parsed.msg
       IN  IF m.role = "user" /\ m.ctype = "num"
           THEN \* msg.content[:100] of a number raises TypeError
                /\ Fault
                /\ UNCHANGED <<next_message, chime_calls, advice>>
           ELSE IF ConsultsAdvisory(m.role, passive)
           THEN /\ chime_calls' = chime_calls + 1
                /\ \E reply \in ChimeReplies :
                      /\ advice' = IF ~passive /\ available THEN reply
                                   ELSE advice
                      /\ next_message' =
                             should_chime_in(passive, available, reply)
                /\ pc' = IF Truthy(next_message') THEN "chime_sleep"
                         ELSE "tail_lines"
                /\ UNCHANGED <<new_lines, last_error>>
           ELSE /\ pc' = "tail_lines"
                /\ UNCHANGED <<next_message, chime_calls, advice, new_lines,
                               last_error>>
    /\ UNCHANGED <<config, full_response, caller, running, turn, response, continue_session,
                   conversation, last_position, session_file,
                   parsed, tells, env_vars, proc, launches>>

\* asyncio.sleep(2) has elapsed: send_chime is entered
ChimeThrottle ==
    /\ pc = "chime_sleep"
    /\ pc' = "chime_spawn"
    /\ UNCHANGED <<config, full_response, caller, running, turn, response, next_message,
                   continue_session, conversation, watch_vars,
                   env_vars, proc, advice, launches, last_error>>

\* a bug: the exception of a failed launch leaves the tailing loop
ChimeSpawnFail_uncaught ==
    /\ pc = "chime_spawn"
    /\ Len(launches) < MaxLaunches
    /\ launches' = Append(launches,
            Launch("chime", "watch", next_message.val, TRUE, FALSE))
    /\ pc' = "crashed"
    /\ UNCHANGED <<config, full_response, caller, running, turn, response, next_message,
                   continue_session, conversation, watch_vars, env_vars, proc,
                   advice, last_error>>

\* create_subprocess_exec raises in send_chime: the exception reaches the
\* handler of the tailing loop
ChimeSpawnFail ==
    /\ pc = "chime_spawn"
    /\ Len(launches) < MaxLaunches
    /\ launches' = Append(launches,
            Launch("chime", "watch", next_message.val, TRUE, FALSE))
    /\ Fault
    /\ UNCHANGED <<config, full_response, caller, running, turn, response, next_message,
                   continue_session, conversation,
                   last_position, session_file, parsed, chime_calls, tells, env_vars,
                   proc, advice>>

\* the subprocess of send_chime is started
ChimeSpawnOk ==
    /\ pc = "chime_spawn"
    /\ Len(launches) < MaxLaunches
    /\ launches' = Append(launches,
            Launch("chime", "watch", next_message.val, TRUE, TRUE))
    /\ proc' = "running"
    /\ pc' = "chime_wait"
    /\ UNCHANGED <<config, full_response, caller, running, turn, response, next_message,
                   continue_session, conversation, watch_vars,
                   env_vars, advice, last_error>>

\* await process.communicate() returns once the subprocess has exited
CommunicateReturns(p) == p = "exited"

\* send_chime returns to the tailing loop
ChimeReturn ==
    /\ pc = "chime_wait"
    /\ CommunicateReturns(proc)
    /\ pc' = "tail_lines"
    /\ UNCHANGED <<config, full_response, caller, running, turn, response, next_message,
                   continue_session, conversation, watch_vars,
                   env_vars, proc, advice, launches, last_error>>

\* asyncio.sleep(0.5) at the end of a cycle, asyncio.sleep(1) after a fault
TailSleep ==
    /\ pc \in {"tail_sleep", "tail_backoff"}
    /\ pc' = "tail_read"
    /\ UNCHANGED <<config, full_response, caller, running, turn, response, next_message,
                   continue_session, conversation, watch_vars,
                   env_vars, proc, advice, launches, last_error>>

\* the transcript cannot be read (stat or open raises OSError): fatal while
\* locating and replaying, caught by the tailing loop
TranscriptIOFault ==
    /\ pc \in {"watch_locate", "watch_replay", "tail_read"}
    /\ file_exists
    /\ IF pc = "tail_read"
       THEN Fault
       ELSE pc' = "crashed" /\ UNCHANGED <<new_lines, last_error>>
    /\ UNCHANGED <<config, full_response, caller, running, turn, response, next_message,
                   continue_session, conversation,
                   last_position, session_file, parsed, chime_calls, tells, env_vars,
                   proc, advice, launches>>

(***************************************************************************)
(* User interrupt                                                          *)
(***************************************************************************)
\* where the program can be when KeyboardInterrupt is raised: its awaits
\* and its blocking calls
InterruptPoints ==
    {"stc_spawn", "stc_read", "drive_decide", "drive_sleep", "auto_decide",
     "auto_sleep", "interactive_input", "watch_locate", "watch_replay",
     "tail_read", "tail_handle", "chime_sleep", "chime_spawn", "chime_wait",
     "tail_sleep", "tail_backoff"}

\* a bug: an interrupt of the initial send is handled like a later one
InterruptTarget_initial_to_interactive(at, by) ==
    IF at \in {"stc_spawn", "stc_read"}
        THEN IF by \in {"drive_initial", "drive_loop", "auto_loop"}
                 THEN "interactive_input" ELSE "done"
    ELSE IF at \in {"drive_decide", "drive_sleep", "auto_decide", "auto_sleep"}
        THEN "interactive_input"
    ELSE "done"

\* the except KeyboardInterrupt clause that handles an interrupt raised at
\* position at (inside send_to_claude: awaited by by)
InterruptTarget(at, by) ==
    IF at \in {"stc_spawn", "stc_read"}
        THEN IF by \in {"drive_loop", "auto_loop"}
                 THEN "interactive_input"   \* run_drive_mode, continue_autonomous
                 ELSE "done"                \* initial send; interactive_mode
    ELSE IF at \in {"drive_decide", "drive_sleep", "auto_decide", "auto_sleep"}
        THEN "interactive_input"
    ELSE "done"     \* interactive_mode breaks; run_watch_mode breaks; main

\* a bug: the subprocess is left running when the launch is interrupted
Interrupt_no_kill ==
    /\ pc \in InterruptPoints
    /\ pc' = InterruptTarget(pc, caller)
    /\ caller' = "none"
    /\ UNCHANGED <<config, full_response, running, turn, response,
                   next_message, continue_session, conversation, watch_vars,
                   env_vars, proc, advice, launches, last_error>>

Interrupt ==
    /\ pc \in InterruptPoints
    /\ pc' = InterruptTarget(pc, caller)
    /\ caller' = "none"
    /\ proc' = IF pc = "stc_read" /\ proc = "running" THEN "killed" ELSE proc
    /\ UNCHANGED <<config, full_response, running, turn, response, next_message,
                   continue_session, conversation, watch_vars,
                   env_vars, advice, launches, last_error>>

(***************************************************************************)
(* Entry point                                                             *)
(***************************************************************************)
Main ==
    /\ pc = "main"
    /\ pc' = IF ~claude_bin THEN "exit1"
             ELSE IF run_mode = "watch" THEN "watch_start"
             ELSE IF run_mode = "drive" THEN "drive_start"
             ELSE "interactive_input"
    /\ UNCHANGED <<config, full_response, caller, running, turn, response, next_message,
                   continue_session, conversation, watch_vars,
                   env_vars, proc, advice, launches, last_error>>

Terminal == {"done", "crashed", "exit1"}

(***************************************************************************)
(* Environment: the execution agent                                        *)
(***************************************************************************)
\* the transcript's owner is at work: the session that watch mode tails.
\* (In drive and interactive mode the transcript is left as it was found:
\* no record is appended to it while the program runs.)
WriterActive == pc \notin Terminal \cup {"main"} /\ run_mode = "watch"

\* a record is appended, whole or up to its k-th byte
WriteRecord ==
    /\ WriterActive
    /\ wpending = <<>>
    /\ \E l \in FileLines :
          /\ Len(file) + Len(l) + 1 <= MaxFileLen
          /\ \E k \in 1..(Len(l) + 1) :
                /\ file' = file \o SubSeq(l \o <<"\n">>, 1, k)
                /\ wpending' = SubSeq(l \o <<"\n">>, k + 1, Len(l) + 1)
    /\ file_exists' = TRUE
    /\ UNCHANGED <<config, full_response, pc, caller, running, turn, response, next_message,
                   continue_session, conversation, watch_vars,
                   proc, advice, launches, last_error>>

\* the rest of a record written in two appends
WriteRest ==
    /\ WriterActive
    /\ wpending # <<>>
    /\ file' = file \o wpending
    /\ wpending' = <<>>
    /\ UNCHANGED <<config, full_response, pc, caller, running, turn, response, next_message,
                   continue_session, conversation, watch_vars,
                   file_exists, proc, advice, launches, last_error>>

\* the subprocess exits
ProcExit ==
    /\ proc = "running"
    /\ proc' = "exited"
    /\ UNCHANGED <<config, full_response, pc, caller, running, turn, response, next_message,
                   continue_session, conversation, watch_vars,
                   env_vars, advice, launches, last_error>>

Next ==
    \/ Main
    \/ DriveStart
    \/ DriveLoopCheck
    \/ DriveDecide
    \/ DriveThrottle
    \/ StcSpawnFail
    \/ StcSpawnOk
    \/ StcFinish
    \/ InteractiveQuit
    \/ InteractiveAuto
    \/ InteractiveSend
    \/ AutoLoopCheck
    \/ AutoDecide
    \/ AutoThrottle
    \/ WatchStart
    \/ WatchLocate
    \/ WatchReplay
    \/ TailRead
    \/ TailNextLine
    \/ HandleWatchMessage
    \/ ChimeThrottle
    \/ ChimeSpawnFail
    \/ ChimeSpawnOk
    \/ ChimeReturn
    \/ TailSleep
    \/ TranscriptIOFault
    \/ Interrupt
    \/ WriteRecord
    \/ WriteRest
    \/ ProcExit

Spec == Init /\ [][Next]_vars

(***************************************************************************)
(* The Transcript Reader on its own: parse_session_line applied to one     *)
(* line, drawn from the records of the line language, their truncations    *)
(* and the same with surrounding whitespace.                               *)
(***************************************************************************)
\* the sequences over S of length 1..n
RECURSIVE SeqsUpTo(_, _)
SeqsUpTo(S, n) ==
    IF n = 0 THEN {}
    ELSE LET shorter == SeqsUpTo(S, n - 1)
         IN  {<<x>> : x \in S} \cup shorter \cup
             {<<x>> \o t : x \in S, t \in shorter}

RecordBodies ==
    {<<>>, <<"m">>, <<"c">>, <<"w">>} \cup SeqsUpTo(BlockTokens, MaxBlocks)

Records ==
    {<<"7">>, <<"{", "}">>} \cup
    {<<"{", k>> \o b \o <<"}">> : k \in TypeTokens, b \in RecordBodies}

ParseInputs ==
    {r \o <<"\n">> : r \in Records} \cup
    {<<" ">> \o r \o <<" ", "\n">> : r \in Records} \cup
    UNION {{SubSeq(r, 1, n) : n \in 0..(Len(r) - 1)} : r \in Records}

InitParse ==
    /\ run_mode = "watch"
    /\ passive = FALSE
    /\ max_turns = 0
    /\ available = TRUE
    /\ claude_bin = TRUE
    /\ file_exists = FALSE
    /\ file = <<>>
    /\ pc = "unit"
    /\ new_lines \in {<<l>> : l \in ParseInputs}
    /\ advice = Reply(FALSE, <<>>)
    /\ Constructed

\* msg = parse_session_line(line)
UnitParse ==
    /\ pc = "unit"
    /\ parsed' = parse_session_line(Head(new_lines))
    /\ pc' = "unit_parsed"
    /\ UNCHANGED <<config, full_response, caller, running, turn, response, next_message,
                   continue_session, conversation, last_position, session_file,
                   new_lines, chime_calls, tells, env_vars, proc, advice,
                   launches, last_error>>

NextParse == UnitParse

SpecParse == InitParse /\ [][NextParse]_vars

(***************************************************************************)
(* The advisory decisions on their own: should_continue and                *)
(* should_chime_in applied to one reply of the backend, whose text is a    *)
(* marker, a near miss of a marker or nothing, between two short texts.    *)
(***************************************************************************)
Affixes == {<<>>, <<" ">>, <<"x">>, <<"x", " ">>, <<"\n", "x">>, <<"[">>, <<"]">>}

Cores ==
    {<<>>, DONE, SILENT,
     <<"[", "D", "O", "N", "E">>,
     <<"[", "d", "o", "n", "e", "]">>,
     <<"[", "S", "I", "L", "E", "N", "T">>,
     <<"D", "O", "N", "E">>}

SentinelReplies ==
    {Reply(TRUE, <<>>)} \cup
    {Reply(FALSE, a \o c \o b) : a \in Affixes, c \in Cores, b \in Affixes}

InitSentinel ==
    /\ run_mode = "watch"
    /\ passive = FALSE
    /\ max_turns = 0
    /\ available \in BOOLEAN
    /\ claude_bin = TRUE
    /\ file_exists = FALSE
    /\ file = <<>>
    /\ pc = "unit"
    /\ new_lines = <<>>
    /\ advice \in SentinelReplies
    /\ Constructed

\* next_message = self.should_continue(response)
UnitShouldContinue ==
    /\ pc = "unit"
    /\ next_message' = should_continue(available, advice)
    /\ pc' = "unit_continue"
    /\ UNCHANGED <<config, full_response, caller, running, turn, response, continue_session,
                   conversation, watch_vars, env_vars, proc, advice, launches,
                   last_error>>

\* chime = self.should_chime_in(msg)
UnitShouldChimeIn ==
    /\ pc = "unit"
    /\ next_message' = should_chime_in(passive, available, advice)
    /\ pc' = "unit_chime"
    /\ UNCHANGED <<config, full_response, caller, running, turn, response, continue_session,
                   conversation, watch_vars, env_vars, proc, advice, launches,
                   last_error>>

NextSentinel == UnitShouldContinue \/ UnitShouldChimeIn

SpecSentinel == InitSentinel /\ [][NextSentinel]_vars

(***************************************************************************)
(* The Process Launcher in capture mode on its own: send_to_claude called  *)
(* from interactive mode, with a transcript that the execution agent has   *)
(* left behind: nothing, one record, two records, or a last record         *)
(* without its newline.                                                    *)
(***************************************************************************)
Transcripts ==
    {<<>>} \cup
    {r \o <<"\n">> : r \in Records} \cup
    {r : r \in Records} \cup
    {<<"{", "a", "t", "t", "}", "\n">> \o r \o <<"\n">> : r \in Records}

InitCapture ==
    /\ run_mode = "interactive"
    /\ passive = FALSE
    /\ max_turns = 0
    /\ available = TRUE
    /\ claude_bin = TRUE
    /\ file_exists \in BOOLEAN
    /\ file \in Transcripts
    /\ (~file_exists => file = <<>>)
    /\ pc = "interactive_input"
    /\ new_lines = <<>>
    /\ advice = Reply(FALSE, <<>>)
    /\ Constructed

NextCapture ==
    \/ InteractiveSend
    \/ StcSpawnFail
    \/ StcSpawnOk
    \/ ProcExit
    \/ StcFinish

SpecCapture == InitCapture /\ [][NextCapture]_vars

(***************************************************************************)
(* C1.  For every turn limit N >= 1, one run of run_drive_mode relays at   *)
(* most N instructions of the advisory step to send_to_claude before it    *)
(* leaves its autonomous loop, whatever the advisory responses are.        *)
(***************************************************************************)
\* the send_to_claude calls made by the autonomous loop of run_drive_mode
DriveRelays ==
    Cardinality({i \in DOMAIN launches : launches[i].by = "drive_loop"})

C1_DriveRelaysWithinLimit == max_turns >= 1 => DriveRelays <= max_turns

\* the limit is reached with every turn relaying an instruction
C1_Witness ==
    /\ max_turns = MaxTurnLimit
    /\ DriveRelays = max_turns
    /\ pc = "done"

(***************************************************************************)
(* C2.  As claimed: when the nonzero turn limit is reached, the autonomous *)
(* loop goes to interactive mode.                                          *)
(***************************************************************************)
LimitReached ==
    pc \in {"drive_loop", "auto_loop"} /\ max_turns # 0 /\ turn >= max_turns

InInteractive ==
    \/ pc = "interactive_input"
    \/ pc \in {"stc_spawn", "stc_read"} /\ caller = "interactive"

InAutonomousTurn ==
    \/ pc \in {"drive_decide", "drive_sleep", "auto_decide", "auto_sleep"}
    \/ pc \in {"stc_spawn", "stc_read"} /\ caller \in {"drive_loop", "auto_loop"}

C4_CursorMonotonic ==
    /\ [](last_position <= Len(file))
    /\ [](last_position \in tells \cup {0})
    /\ [][last_position' >= last_position]_vars

\* the cursor has been moved by the replay and by two tailing cycles
C4_Witness ==
    /\ pc = "tail_lines"
    /\ Cardinality(tells) >= 3
    /\ last_position = Len(file)

(***************************************************************************)
(* C5.  parse_session_line never raises: every line that is not a          *)
(* well-formed user or assistant record yields None.                       *)
(***************************************************************************)
\* the line decodes to an object whose type is user or assistant
UserOrAssistantRecord(line) ==
    LET data == json_loads(Strip(line))
    IN  data.ok /\ data.top = "obj" /\ data.type \in {"user", "assistant"}

C5_ParseNeverRaises ==
    pc = "unit_parsed" =>
        /\ ~parsed.raised
        /\ ~UserOrAssistantRecord(Head(new_lines)) => parsed.msg = NoMessage

(***************************************************************************)
(* C6.  should_continue returns no instruction when the advisory response  *)
(* contains [DONE] anywhere, should_chime_in returns none when it contains *)
(* [SILENT] anywhere, and every other non-empty response is returned as    *)
(* the instruction, unchanged.                                             *)
(***************************************************************************)
C6_SentinelDetection ==
    LET response_text == analyze(available, advice)
    IN  /\ pc = "unit_continue" =>
              IF Contains(DONE, response_text) THEN next_message = None
              ELSE response_text # <<>> => next_message = Some(response_text)
        /\ pc = "unit_chime" =>
              IF Contains(SILENT, response_text) THEN next_message = None
              ELSE response_text # <<>> => next_message = Some(response_text)

\* a continuation response with the marker in the middle of other text
C6_Witness ==
    /\ pc = "unit_continue"
    /\ available
    /\ Contains(DONE, advice.text)
    /\ ~StartsWith(DONE, Strip(advice.text))
    /\ next_message = None

(***************************************************************************)
(* C7.  When the Advisory Client has no credential or its remote call      *)
(* raises, analyze returns empty text and the Session Loop does what it    *)
(* does for a sentinel: no instruction is relayed for that decision (drive *)
(* mode goes to interactive mode, watch mode stays in tailing), and empty  *)
(* text is never delivered as an instruction.                              *)
(***************************************************************************)
AdvisoryFailed == ~available \/ advice.raises

\* the advisory answered with the marker the decision looks for
DoneAnswered == available /\ ~advice.raises /\ Contains(DONE, advice.text)

SilentAnswered == available /\ ~advice.raises /\ Contains(SILENT, advice.text)

C7_FailureIsNoInstruction ==
    /\ [](AdvisoryFailed => analyze(available, advice) = <<>>)
    /\ [](\A i \in DOMAIN launches : launches[i].message # <<>>)
    /\ [][/\ ((DriveDecide \/ AutoDecide) /\ (AdvisoryFailed' \/ DoneAnswered')) =>
               /\ pc' = "interactive_input"
               /\ ~Truthy(next_message')
               /\ launches' = launches
          /\ (HandleWatchMessage /\ chime_calls' # chime_calls
                 /\ (AdvisoryFailed' \/ SilentAnswered')) =>
               /\ pc' = "tail_lines"
               /\ ~Truthy(next_message')
               /\ launches' = launches]_vars

\* the remote call raised at the first decision of drive mode
C7_Witness ==
    /\ run_mode = "drive"
    /\ available
    /\ advice.raises
    /\ pc = "interactive_input"
    /\ turn = 1

(***************************************************************************)
(* C8.  With the passive flag set, should_chime_in is never invoked and no *)
(* subprocess is launched, whatever the transcript holds.                  *)
(***************************************************************************)
C8_PassiveNeverChimes ==
    passive => chime_calls = 0 /\ launches = <<>> /\ proc = "none"

\* an assistant message read while tailing has been handled
C8_Witness ==
    /\ passive
    /\ available
    /\ pc = "tail_lines"
    /\ parsed.msg.role = "assistant"
    /\ Cardinality(tells) >= 2
    /\ conversation # <<>>
    /\ conversation[Len(conversation)] = parsed.msg

(***************************************************************************)
(* C9.  send_chime returns right after spawning, without waiting for the   *)
(* subprocess to exit: whenever the subprocess has been spawned, the       *)
(* return to the tailing loop can be taken.                                *)
(***************************************************************************)
C9_ChimeReturnsWithoutWaiting ==
    pc = "chime_wait" => ENABLED ChimeReturn

(***************************************************************************)
(* C10.  A failure to start the execution agent is reported as an error    *)
(* text, the launch is not repeated and the loop goes on, for              *)
(* send_to_claude and for send_chime.                                      *)
(***************************************************************************)
LaunchFailed ==
    /\ Len(launches') = Len(launches) + 1
    /\ ~launches'[Len(launches')].started

C10_LaunchFailureReported ==
    [][LaunchFailed =>
         /\ conversation' = conversation
         /\ proc' = proc
         /\ IF launches'[Len(launches')].kind = "capture"
            THEN /\ response' = LAUNCH_ERROR
                 /\ pc' = ReturnPc(caller)
            ELSE /\ last_error' = WATCHER_ERROR
                 /\ pc' = "tail_backoff"
                 /\ last_position' = last_position
                 /\ new_lines' = <<>>]_vars

\* after a failed chime launch the tailing loop has taken its next cycle
C10_Witness ==
    /\ launches # <<>>
    /\ launches[Len(launches)].kind = "chime"
    /\ ~launches[Len(launches)].started
    /\ pc = "tail_lines"

(***************************************************************************)
(* C11.  Once startup has passed the check of the execution-agent binary,  *)
(* no fault ends the run: a decode error, an advisory failure, a launch    *)
(* failure or a transcript I/O fault in any phase of watch mode is caught  *)
(* and the loop goes on.                                                   *)
(***************************************************************************)
C11_NoFaultEndsRun == pc # "crashed"

(***************************************************************************)
(* C12.  Reconciliation in capture mode: after the subprocess exits, if    *)
(* the transcript's last record is an assistant message whose text is      *)
(* longer than the text captured from the stream (nothing captured         *)
(* included), send_to_claude returns the transcript's text; otherwise it   *)
(* returns the captured text (the placeholder when nothing was captured).  *)
(***************************************************************************)
\* the text of the transcript's last record when that record is an assistant
\* message, None otherwise
LastAssistantText(exists, content) ==
    LET lines == readlines(content)
    IN  IF ~exists \/ lines = <<>> THEN None
        ELSE LET r == parse_session_line(lines[Len(lines)])
             IN  IF ~r.raised /\ r.msg.role = "assistant"
                 THEN Some(r.msg.content) ELSE None

ClaimedReturn(captured, exists, content) ==
    LET last == LastAssistantText(exists, content)
    IN  IF last.some /\ Len(last.val) > Len(captured) THEN last.val
        ELSE IF captured = <<>> THEN NO_TEXT_RESPONSE
        ELSE captured

C12_TranscriptWinsWhenLonger ==
    [][StcFinish =>
         response' = ClaimedReturn(Strip(full_response'), file_exists, file)]_vars

(***************************************************************************)
(* C13.  The Conversation is append-only for the life of a run: in every   *)
(* step of every mode its previous contents are an unchanged prefix of its *)
(* new contents.                                                           *)
(***************************************************************************)
IsPrefix(a, b) == Len(a) <= Len(b) /\ SubSeq(b, 1, Len(a)) = a

C13_ConversationAppendOnly == [][IsPrefix(conversation, conversation')]_vars

\* two exchanges of drive mode are stored, the second after the first
C13_Witness ==
    /\ run_mode = "drive"
    /\ Len(conversation) = 4
    /\ conversation[1].content = TASK
    /\ conversation[3].content # TASK

(***************************************************************************)
(* C14.  For every assistant record, parse_session_line yields empty       *)
(* tool_invocations when the record has no tool-invocation block, and      *)
(* otherwise a non-empty sequence with one entry per tool-invocation       *)
(* block, in the order of the blocks in the record.                        *)
(***************************************************************************)
\* the line is an assistant record whose message is an object, whose content
\* is not a number and whose text blocks carry a text
AssistantRecord(line) ==
    LET data == json_loads(Strip(line))
    IN  /\ data.ok /\ data.top = "obj" /\ data.type = "assistant"
        /\ data.message # "str"
        /\ data.content # "num"
        /\ \A i \in DOMAIN data.blocks : data.blocks[i] # "n"

\* the tool-invocation blocks written in the line, as they appear in it
ToolTokens(line) == SelectSeq(line, LAMBDA c : c \in {"T", "U"})

C14_ToolInvocationsInOrder ==
    (pc = "unit_parsed" /\ AssistantRecord(Head(new_lines))) =>
        LET toks == ToolTokens(Head(new_lines))
            calls == parsed.msg.tool_calls
        IN  /\ ~parsed.raised
            /\ parsed.msg.role = "assistant"
            /\ toks = <<>> => ~Truthy(calls)
            /\ toks # <<>> =>
                  /\ calls.some
                  /\ Len(calls.val) = Len(toks)
                  /\ \A i \in DOMAIN toks : calls.val[i] = ToolName(toks[i])

\* a record with two different tool blocks has been parsed
C14_Witness ==
    /\ pc = "unit_parsed"
    /\ AssistantRecord(Head(new_lines))
    /\ parsed.msg.tool_calls = Some(<<"f", "g">>)

(***************************************************************************)
(* C15.  A tailing cycle consumes only complete (newline-terminated)       *)
(* lines: the cursor never advances past a record that the external        *)
(* writer has only partly written, so the cursor always stands at the      *)
(* start of the transcript or right after a newline.                       *)
(***************************************************************************)
AtLineBoundary(cursor, content) == cursor = 0 \/ content[cursor] = "\n"

C15_CursorAtLineBoundary ==
    [][(TailRead /\ AtLineBoundary(last_position, file)) =>
          AtLineBoundary(last_position', file')]_vars

(***************************************************************************)
(* C16.  In active watch mode the advisory step is consulted once for each *)
(* assistant message the tailing loop takes up and never for a user        *)
(* message; a response that is a non-sentinel, non-empty text causes       *)
(* exactly one launch carrying that text, and a response that yields       *)
(* nothing causes no launch and no other state change in that cycle.       *)
(***************************************************************************)
\* the advisory response asks for an instruction to be sent
InstructionAnswered ==
    /\ analyze(available, advice) # <<>>
    /\ ~Contains(SILENT, analyze(available, advice))

TailingPcs ==
    {"tail_read", "tail_lines", "tail_handle", "chime_sleep", "chime_spawn",
     "chime_wait", "tail_sleep", "tail_backoff"}

C17_LocateReplayTail ==
    /\ [](pc \in {"watch_start", "watch_locate", "watch_replay"} =>
            /\ tells = {} /\ last_position = 0 /\ conversation = <<>>)
    /\ [](pc = "watch_replay" => file_exists /\ Len(file) > 0)
    /\ [](pc \in TailingPcs => tells # {} /\ last_position \in tells)
    /\ [][/\ pc = "watch_locate" =>
               pc' \in {"watch_locate", "watch_replay", "crashed", "done"}
          /\ (pc = "watch_locate" /\ pc' = "watch_replay") =>
               (file_exists /\ Len(file) > 0)
          /\ pc = "watch_replay" =>
               pc' \in {"watch_replay", "tail_read", "crashed", "done"}
          /\ (pc = "watch_replay" /\ pc' = "tail_read") =>
               /\ conversation' = Messages(readlines(file))
               /\ last_position' = Len(file)
               /\ tells' = {Len(file)}
          /\ pc \in TailingPcs => pc' \in TailingPcs \cup {"done"}
          /\ (TailRead /\ Cardinality(tells) = 1) =>
               /\ last_position \in tells
               /\ new_lines' = readlines(ReadFrom(last_position, file))]_vars

\* history replayed, and the first tailing cycle has read what came after it
C17_Witness ==
    /\ pc = "tail_lines"
    /\ Cardinality(tells) = 2
    /\ conversation # <<>>
    /\ new_lines # <<>>
    /\ \A t \in tells : t > 0

(***************************************************************************)
(* C18.  Every advisory-derived instruction is relayed in the strict       *)
(* sequence decide, throttle wait, launch: in drive mode, in resumed       *)
(* autonomous mode and in watch mode the Process Launcher is never invoked *)
(* for an advisory instruction without the throttle delay having elapsed   *)
(* between the decision and the launch.                                    *)
(***************************************************************************)
ThrottlePcs == {"drive_sleep", "auto_sleep", "chime_sleep"}

\* the launcher is entered on this step for an advisory instruction
AdvisoryLaunchEntered ==
    \/ pc' = "stc_spawn" /\ pc # "stc_spawn" /\ caller' \in {"drive_loop", "auto_loop"}
    \/ pc' = "chime_spawn" /\ pc # "chime_spawn"

C18_ThrottleBeforeLaunch ==
    /\ [](pc \in ThrottlePcs => Truthy(next_message))
    /\ [][/\ AdvisoryLaunchEntered =>
               /\ pc \in ThrottlePcs
               /\ DriveThrottle \/ AutoThrottle \/ ChimeThrottle
               /\ next_message' = next_message
               /\ launches' = launches
          /\ ((DriveDecide \/ AutoDecide \/ HandleWatchMessage)
                 /\ next_message' # next_message /\ Truthy(next_message')) =>
               /\ pc' \in ThrottlePcs
               /\ launches' = launches
          /\ (pc' \in ThrottlePcs /\ pc' # pc) =>
               pc \in {"drive_decide", "auto_decide", "tail_handle"}
          /\ (launches' # launches
                 /\ launches'[Len(launches')].by \in {"drive_loop", "auto_loop", "watch"}) =>
               /\ pc \in {"stc_spawn", "chime_spawn"}
               /\ launches'[Len(launches')].message = next_message.val]_vars

\* an instruction of the resumed autonomous loop has been launched
C18_Witness ==
    /\ pc = "stc_read"
    /\ caller = "auto_loop"
    /\ launches # <<>>
    /\ launches[Len(launches)].by = "auto_loop"
    /\ launches[Len(launches)].message = analyze(available, advice)

(***************************************************************************)
(* C19.  From INTERACTIVE mode, /auto transitions to autonomous drive      *)
(* whose first advisory decision is made on the last captured agent        *)
(* response (the response of the most recent launch, or the one handed     *)
(* over on entry if none was made in interactive mode), and /quit ends the *)
(* loop without any further launch.                                        *)
(***************************************************************************)
C19_ResumeAndQuit ==
    [][/\ response' # response => (StcFinish \/ StcSpawnFail)
       /\ StcFinish =>
            /\ response' = conversation'[Len(conversation')].content
            /\ pc' = ReturnPc(caller)
       /\ StcSpawnFail => response' = LAUNCH_ERROR
       /\ InteractiveAuto =>
            /\ pc' = "auto_loop"
            /\ response' = response
            /\ launches' = launches
            /\ conversation' = conversation
       /\ (pc = "auto_loop" /\ turn = 0) =>
            /\ pc' \in {"auto_loop", "auto_decide"}
            /\ response' = response
            /\ launches' = launches
       /\ InteractiveQuit => pc' = "done"
       /\ pc = "done" => (pc' = "done" /\ launches' = launches)]_vars

\* the first decision after /auto, which followed a launch made in
\* interactive mode
C19_Witness ==
    /\ pc = "auto_decide"
    /\ turn = 1
    /\ launches # <<>>
    /\ launches[Len(launches)].by = "interactive"
    /\ launches[Len(launches)].started
    /\ conversation # <<>>
    /\ response = conversation[Len(conversation)].content

(***************************************************************************)
(* C20.  During tailing, every record read from the transcript that parses *)
(* to a message is appended to the Conversation and handled exactly once,  *)
(* even when handling an earlier record of the same batch raises a fault:  *)
(* when a fault sends the loop into its backoff, no record of the batch    *)
(* that parses to a message is left unhandled.                             *)
(***************************************************************************)
\* the lines of the batch that the loop has not taken up yet
Unhandled == IF pc = "tail_lines" THEN Tail(new_lines) ELSE new_lines

C20_NoRecordSkipped ==
    [][(pc' = "tail_backoff" /\ pc # "tail_backoff" /\ new_lines # <<>>) =>
          Messages(Unhandled) = <<>>]_vars

(***************************************************************************)
(* C21.  At most one execution-agent subprocess spawned by this system is  *)
(* alive at any time: no launch (send_to_claude or send_chime) starts      *)
(* while a subprocess from an earlier launch is still running, in every    *)
(* mode and after interrupts.                                              *)
(***************************************************************************)
C21_OneSubprocessAtATime ==
    /\ [](proc = "running" => pc \in {"stc_read", "chime_wait", "done"})
    /\ [](pc \in {"stc_spawn", "chime_spawn"} => proc # "running")
    /\ [][(StcSpawnOk \/ ChimeSpawnOk) =>
            (proc # "running" /\ proc' = "running")]_vars

\* a launch made from interactive mode after the launch of an autonomous
\* turn was interrupted and its subprocess killed
C21_Witness ==
    /\ pc = "stc_read"
    /\ proc = "running"
    /\ Len(launches) = 3
    /\ \A i \in 1..3 : launches[i].started
    /\ launches[2].by = "drive_loop"
    /\ launches[3].by = "interactive"
    /\ Len(conversation) = 2

(***************************************************************************)
(* C22.  In a capture-mode launch, a subprocess that started appends       *)
(* exactly two messages to the Conversation, the instruction as a user     *)
(* message followed by the final response as an assistant message, and a   *)
(* launch that fails to start leaves the Conversation unchanged (as does   *)
(* a launch that is interrupted before its subprocess has exited).         *)
(***************************************************************************)
C22_CaptureStoresExchange ==
    [][/\ StcFinish =>
            /\ launches[Len(launches)].started
            /\ conversation' = conversation \o
                  <<Message("user", launches[Len(launches)].message, "str", None),
                    Message("assistant", response', "str", None)>>
       /\ (StcSpawnFail \/ StcSpawnOk) => conversation' = conversation
       /\ (pc \in {"stc_spawn", "stc_read"} /\ conversation' # conversation) =>
            StcFinish]_vars

\* a first launch failed to start, the second one ran and was stored
C22_Witness ==
    /\ run_mode = "drive"
    /\ pc = "drive_loop"
    /\ Len(launches) = 2
    /\ ~launches[1].started
    /\ launches[2].started
    /\ Len(conversation) = 2
    /\ conversation[1] = Message("user", launches[2].message, "str", None)
    /\ conversation[2] = Message("assistant", response, "str", None)

(***************************************************************************)
(* C23.  Only the initial task of run_drive_mode is launched as a fresh    *)
(* session; every other launch of a run (advisory follow-ups, chime-ins,   *)
(* human input in interactive mode, the first input of a run that starts   *)
(* in interactive mode included) continues the prior external session.     *)
(***************************************************************************)
C23_OnlyInitialTaskIsFresh ==
    \A i \in DOMAIN launches :
        /\ launches[i].continue_session = (launches[i].by # "drive_initial")
        /\ launches[i].by = "drive_initial" =>
              /\ i = 1
              /\ run_mode = "drive"
              /\ launches[i].message = TASK
        /\ (run_mode # "drive" \/ i > 1) => launches[i].continue_session

\* the initial task, an advisory follow-up and a human input were launched
C23_Witness ==
    /\ Len(launches) = 3
    /\ ~launches[1].continue_session
    /\ launches[2].by = "drive_loop"
    /\ launches[2].continue_session
    /\ launches[3].by = "interactive"
    /\ launches[3].continue_session

(***************************************************************************)
(* C24.  With turn limit N >= 1, the limit bounds the autonomous           *)
(* instructions of the whole run: across any sequence of interrupts and    *)
(* /auto resumes, the total number of advisory-derived instructions        *)
(* relayed by run_drive_mode and continue_autonomous never exceeds N.      *)
(***************************************************************************)
\* the advisory-derived instructions relayed so far by both loops
AutonomousRelays ==
    Cardinality({i \in DOMAIN launches :
                    launches[i].by \in {"drive_loop", "auto_loop"}})

C24_LimitBoundsWholeRun == max_turns >= 1 => AutonomousRelays <= max_turns

\* The limit bounds each autonomous loop on its own: run_drive_mode and
\* every continue_autonomous started by /auto count their turns from 0, a
\* turn is counted before each advisory decision, and an instruction is
\* relayed only in a turn within the limit.
C24_LimitBoundsEachLoop ==
    /\ [](max_turns >= 1 => turn <= max_turns)
    /\ [][/\ InteractiveAuto => turn' = 0
          /\ turn' # turn =>
               \/ InteractiveAuto /\ turn' = 0
               \/ (DriveLoopCheck \/ AutoLoopCheck) /\ turn' = turn + 1
          /\ (pc' \in {"drive_decide", "auto_decide"} /\ pc' # pc) =>
               /\ pc \in {"drive_loop", "auto_loop"}
               /\ turn' = turn + 1
               /\ max_turns >= 1 => turn < max_turns
          /\ (DriveThrottle \/ AutoThrottle) =>
               /\ turn >= 1
               /\ max_turns >= 1 => turn <= max_turns
               /\ pc' = "stc_spawn"
          /\ (pc = "stc_spawn" /\ caller \in {"drive_loop", "auto_loop"}
                 /\ pc' \notin {"stc_spawn", "stc_read"}) =>
               pc' \in {"drive_loop", "auto_loop", "interactive_input"}]_vars

\* with a limit of 1, a second instruction has been relayed after /auto
C24_Witness ==
    /\ max_turns = 1
    /\ AutonomousRelays = 2
    /\ launches[Len(launches)].by = "auto_loop"
    /\ turn = 1

(***************************************************************************)
(* C25.  Records that already exist in the transcript when watch mode      *)
(* finds it are only replayed into the Conversation: no advisory call and  *)
(* no launch is ever made for a historical record, only for records read   *)
(* after the replay cursor.                                                *)
(***************************************************************************)
\* the offset the replay stopped at: the first position f.tell() returned
ReplayCursor == CHOOSE t \in tells : \A u \in tells : t <= u

\* the assistant messages written to the transcript after the replay cursor
AssistantAfterReplay ==
    SelectSeq(Messages(readlines(ReadFrom(ReplayCursor, file))),
              LAMBDA m : m.role = "assistant")

C25_HistoryOnlyReplayed ==
    /\ [](run_mode = "watch" =>
            /\ Len(launches) <= chime_calls
            /\ IF tells = {} THEN chime_calls = 0
               ELSE chime_calls <= Len(AssistantAfterReplay))
    /\ [][WatchReplay =>
            /\ chime_calls' = 0
            /\ launches' = <<>>
            /\ next_message' = None
            /\ pc' \in {"tail_read", "crashed"}]_vars

\* an assistant record was replayed and a later one was read while tailing:
\* the advisory was called for the later one only
C25_Witness ==
    /\ ~passive
    /\ Len(conversation) = 2
    /\ conversation[1].role = "assistant"
    /\ conversation[2].role = "assistant"
    /\ Cardinality(tells) = 2
    /\ ReplayCursor = 5
    /\ chime_calls = 1

====
